---------------------------- MODULE Spec2Model ----------------------------
(***************************************************************************)
(* Carey Foster bridge simulator: the session controller (Home), the live  *)
(* data panel (DataPanel) and the report view (ReportPage).                *)
(*                                                                         *)
(* Numbers.  Every JavaScript number of the program is modelled by the     *)
(* exact rational it denotes, a record [num, den] in lowest terms with     *)
(* den > 0, and the arithmetic of the source is carried out exactly on     *)
(* these rationals (floating-point rounding is not modelled).  null is the *)
(* record Null and NaN is the record NaN; both have den = 0, so that they  *)
(* are comparable with, and different from, every number.                  *)
(***************************************************************************)
EXTENDS Integers, Sequences, FiniteSets

(***************************************************************************)
(* Exact rational arithmetic.                                              *)
(***************************************************************************)
RECURSIVE GCD(_, _)
GCD(a, b) == IF b = 0 THEN a ELSE GCD(b, a % b)

AbsInt(n) == IF n < 0 THEN -n ELSE n

Rat(n, d) ==
    LET s == IF d < 0 THEN -1 ELSE 1
        g == GCD(AbsInt(n), AbsInt(d))
    IN  [num |-> (s * n) \div g, den |-> (s * d) \div g]

Null == [num |-> 0, den |-> 0]
NaN == [num |-> 1, den |-> 0]

IsNumber(x) == x.den > 0

\* sums over the least common denominator and products with the common
\* factors cancelled first, so that intermediate values stay small
Add(x, y) ==
    LET g == GCD(x.den, y.den)
    IN  Rat(x.num * (y.den \div g) + y.num * (x.den \div g), (x.den \div g) * y.den)
Sub(x, y) ==
    LET g == GCD(x.den, y.den)
    IN  Rat(x.num * (y.den \div g) - y.num * (x.den \div g), (x.den \div g) * y.den)
Mul(x, y) ==
    LET g1 == GCD(AbsInt(x.num), y.den)
        g2 == GCD(AbsInt(y.num), x.den)
    IN  Rat((x.num \div g1) * (y.num \div g2), (x.den \div g2) * (y.den \div g1))
Div(x, y) ==
    LET g1 == GCD(AbsInt(x.num), AbsInt(y.num))
        g2 == GCD(x.den, y.den)
    IN  Rat((x.num \div g1) * (y.den \div g2), (x.den \div g2) * (y.num \div g1))
Lt(x, y) == x.num * y.den < y.num * x.den
Leq(x, y) == x.num * y.den <= y.num * x.den
Abs(x) == [num |-> AbsInt(x.num), den |-> x.den]
Max(x, y) == IF Lt(x, y) THEN y ELSE x
Min(x, y) == IF Lt(y, x) THEN y ELSE x

Zero == Rat(0, 1)
Hundred == Rat(100, 1)

(***************************************************************************)
(* Number.prototype.toFixed(2) followed by parseFloat: the nearest number  *)
(* with two decimals, the larger one on a tie (positions are never         *)
(* negative).                                                              *)
(***************************************************************************)
toFixed2(x) == Rat((200 * x.num + x.den) \div (2 * x.den), 100)

(***************************************************************************)
(* parseFloat(text) || 0 of the typed known-resistance field: NaN and 0    *)
(* both give 0.                                                            *)
(***************************************************************************)
parseFloatOrZero(v) == IF IsNumber(v) THEN v ELSE Zero

(***************************************************************************)
(* Program constants of Home.                                              *)
(***************************************************************************)
SENSITIVITY_FACTOR == Rat(5, 1000)
BALANCE_TOLERANCE == Rat(1, 100)
metallicStripResistanceEarlier == Rat(1, 1000)

metallicStripResistance == Zero
InitialTrueX == Rat(5, 1)
InitialKnownR == Rat(5, 1)
InitialJockeyPos == Rat(50, 1)
InitialWireResistancePerCm == Rat(8, 1000)
\* the fixed resistivity of the revision that has the assistant
WIRE_RESISTANCE_PER_CM == Rat(2, 100)

(***************************************************************************)
(* Bounds of the model.                                                    *)
(***************************************************************************)
\* number of Readings created (Date.now() ids handed out) in one behaviour
MaxId == 2

\* wire resistivities drawn by Math.random() * (0.009 - 0.007) + 0.007
RhoValues == {Rat(8, 1000), Rat(7, 1000)}

\* values the known-resistance slider is moved to (step 0.1 inside the range)
SliderValues == {Rat(1, 10), Rat(5, 1), Rat(51, 10)}

\* texts typed into the known-resistance field, already parsed by parseFloat
TypedRValues == {NaN, Rat(51, 10)}

\* raw pointer positions on the wire, in cm, before clamping to [0, 100]
PointerPositions ==
    {Rat(-1, 1), Rat(43754, 1000), Rat(56246, 1000)}

\* texts confirmed in the instructor dialog, already parsed by parseFloat
TrueXInputs == {NaN, Rat(0, 1), Rat(51, 10)}

\* what the suggestion flow does with a request: it answers with
\* suggestions, answers with an empty text, or throws
ServiceOutcomes == {"suggestions", "empty", "throws"}

\* tabs the user switches to
TabValues == {"findX", "findRho"}

\* radius and length typed in the report dialog, parsed, and their units
WireRadiusInputs == {NaN, Rat(200, 1)}
WireLengthInputs == {Rat(0, 1), Rat(15, 10)}
WireRadiusUnits == {"cm", "m"}
WireLengthUnits == {"m", "cm"}

ExperimentModes == {"findX", "findRho"}
TabModes == ExperimentModes \cup {"aim", "formula", "instructions"}

VARIABLES
    trueX,                \* hidden true unknown resistance (Ohm)
    wireResistancePerCm,  \* true wire resistivity (Ohm/cm)
    knownR,               \* resistance-box setting (Ohm)
    jockeyPos,            \* jockey position (cm)
    readings,             \* [findX |-> Seq(Reading), findRho |-> Seq(Reading)]
    selectedReadingId,    \* id of the selected Reading, NoId when null
    isSwapped,
    isValueLocked,
    activeTab,
    experimentMode,
    clock,                \* Date.now(), in ticks
    toast,                \* title of the notification raised by the last handler
    page,                 \* route shown: "home" or "report"
    reportData,           \* sessionStorage item 'reportData'
    isTrueValueRevealed,
    aiSuggestion,         \* text shown by the assistant, "" when none
    isAiLoading,
    aiRequest             \* the call to getAiSuggestion in flight, NoRequest when none

vars == <<trueX, wireResistancePerCm, knownR, jockeyPos, readings,
          selectedReadingId, isSwapped, isValueLocked, activeTab,
          experimentMode, clock, toast, page, reportData,
          isTrueValueRevealed, aiSuggestion, isAiLoading, aiRequest>>

\* the state of the data panel's reveal toggle and of the assistant
panelVars == <<isTrueValueRevealed, aiSuggestion, isAiLoading, aiRequest>>

NoId == 0
NoToast == ""
NoRequest == [pending |-> FALSE, R |-> Null, l1 |-> Null, l2 |-> Null, X |-> Null]
NoReport ==
    [present |-> FALSE, readings |-> [findX |-> <<>>, findRho |-> <<>>],
     trueX |-> Null, trueRho |-> Null, wireRadius |-> Null, wireLength |-> Null]


(***************************************************************************)
(* Balance Model.                                                          *)
(***************************************************************************)
\* the resistance in the left gap
rLeft(mode, swapped, R, X) ==
    IF mode = "findX"
    THEN (IF swapped THEN X ELSE R)
    ELSE (IF ~swapped THEN R ELSE metallicStripResistance)

rRightIgnoringSwap(mode, swapped, R, X) ==
    IF mode = "findX" THEN X ELSE metallicStripResistance

\* the resistance in the right gap
rRight(mode, swapped, R, X) ==
    IF mode = "findX"
    THEN (IF swapped THEN R ELSE X)
    ELSE (IF ~swapped THEN metallicStripResistance ELSE R)

BalanceFromGapsSum(left, right, rho) ==
    Add(Rat(50, 1), Div(Add(right, left), Mul(Rat(2, 1), rho)))

\* 50 + (rRight - rLeft) / (2 * wireResistancePerCm)
BalanceFromGaps(left, right, rho) ==
    LET resistanceDifference == Sub(right, left)
        balanceShift == Div(resistanceDifference, Mul(Rat(2, 1), rho))
    IN  Add(Rat(50, 1), balanceShift)

BalancePosition(mode, swapped, R, X, rho) ==
    BalanceFromGaps(rLeft(mode, swapped, R, X), rRight(mode, swapped, R, X), rho)

balancePoint ==
    BalancePosition(experimentMode, isSwapped, knownR, trueX, wireResistancePerCm)

Deflection(pos, bp) == Mul(Sub(pos, bp), SENSITIVITY_FACTOR)

potentialDifference == Deflection(jockeyPos, balancePoint)

Balanced(pd) == Lt(Abs(pd), BALANCE_TOLERANCE)

isBalanced == Balanced(potentialDifference)

(***************************************************************************)
(* Reading log helpers.                                                    *)
(***************************************************************************)
Reading(id, rValue, l1, l2) == [id |-> id, rValue |-> rValue, l1 |-> l1, l2 |-> l2]

Range(s) == {s[i] : i \in DOMAIN s}

FindIndexFirst(log, R) == IF Len(log) > 0 THEN 1 ELSE 0

FindIndexByRNone(log, R) == 0

\* Array.prototype.findIndex: the first index whose element matches, 0 if none
FindIndexByR(log, R) ==
    IF \E i \in DOMAIN log : log[i].rValue = R
    THEN CHOOSE i \in DOMAIN log :
            /\ log[i].rValue = R
            /\ \A j \in DOMAIN log : log[j].rValue = R => i <= j
    ELSE 0

FindIndexByIdLast(log, id) == Len(log)

FindIndexById(log, id) ==
    IF \E i \in DOMAIN log : log[i].id = id
    THEN CHOOSE i \in DOMAIN log :
            /\ log[i].id = id
            /\ \A j \in DOMAIN log : log[j].id = id => i <= j
    ELSE 0

\* Array.prototype.splice(index, 1)
Splice(log, index) ==
    [i \in 1..(Len(log) - 1) |-> IF i < index THEN log[i] ELSE log[i + 1]]

IsComplete(r) == r.l1 # Null /\ r.l2 # Null

TypeOK ==
    /\ IsNumber(trueX) /\ IsNumber(wireResistancePerCm)
    /\ IsNumber(knownR) /\ IsNumber(jockeyPos)
    /\ \A m \in ExperimentModes : \A i \in DOMAIN readings[m] :
          /\ readings[m][i].id \in 1..(MaxId + 5)
          /\ IsNumber(readings[m][i].rValue)
    /\ selectedReadingId \in 0..(MaxId + 5)
    /\ isSwapped \in BOOLEAN /\ isValueLocked \in BOOLEAN
    /\ activeTab \in TabModes /\ experimentMode \in ExperimentModes
    /\ page \in {"home", "report"}
    /\ isTrueValueRevealed \in BOOLEAN /\ isAiLoading \in BOOLEAN
    /\ aiRequest.pending \in BOOLEAN

(***************************************************************************)
(* Home: state after construction and the mount effect.                    *)
(***************************************************************************)
Init ==
    /\ trueX = InitialTrueX
    /\ wireResistancePerCm \in RhoValues
    /\ knownR = InitialKnownR
    /\ jockeyPos = InitialJockeyPos
    /\ readings = [findX |-> <<>>, findRho |-> <<>>]
    /\ selectedReadingId = NoId
    /\ isSwapped = FALSE
    /\ isValueLocked = FALSE
    /\ activeTab = "aim"
    /\ experimentMode = "findX"
    /\ clock = 1
    /\ toast = NoToast
    /\ page = "home"
    /\ reportData = NoReport
    /\ isTrueValueRevealed = FALSE
    /\ aiSuggestion = ""
    /\ isAiLoading = FALSE
    /\ aiRequest = NoRequest

\* the BridgeSimulation and the DataPanel are mounted only inside the
\* findX / findRho tab contents
ExperimentShown == page = "home" /\ activeTab \in ExperimentModes

(***************************************************************************)
(* BridgeSimulation controls.                                              *)
(***************************************************************************)
SliderMin(mode) == IF mode = "findX" THEN Rat(1, 1) ELSE Rat(1, 10)
SliderMax(mode) == IF mode = "findX" THEN Rat(20, 1) ELSE Rat(2, 1)

KnownRSlider ==
    /\ ExperimentShown
    /\ \E v \in SliderValues :
          /\ Leq(SliderMin(experimentMode), v)
          /\ Leq(v, SliderMax(experimentMode))
          /\ knownR' = v
    /\ toast' = NoToast
    /\ UNCHANGED <<trueX, wireResistancePerCm, jockeyPos, readings,
                   selectedReadingId, isSwapped, isValueLocked, activeTab,
                   experimentMode, clock, page, reportData>>
    /\ UNCHANGED panelVars

KnownRInput ==
    /\ ExperimentShown
    /\ \E v \in TypedRValues : knownR' = parseFloatOrZero(v)
    /\ toast' = NoToast
    /\ UNCHANGED <<trueX, wireResistancePerCm, jockeyPos, readings,
                   selectedReadingId, isSwapped, isValueLocked, activeTab,
                   experimentMode, clock, page, reportData>>
    /\ UNCHANGED panelVars

handleMouseMoveUnclamped ==
    /\ ExperimentShown
    /\ \E newPos \in PointerPositions : jockeyPos' = newPos
    /\ toast' = NoToast
    /\ UNCHANGED <<trueX, wireResistancePerCm, knownR, readings,
                   selectedReadingId, isSwapped, isValueLocked, activeTab,
                   experimentMode, clock, page, reportData>>
    /\ UNCHANGED panelVars

handleMouseMove ==
    /\ ExperimentShown
    /\ \E newPos \in PointerPositions :
          jockeyPos' = Max(Zero, Min(Hundred, newPos))
    /\ toast' = NoToast
    /\ UNCHANGED <<trueX, wireResistancePerCm, knownR, readings,
                   selectedReadingId, isSwapped, isValueLocked, activeTab,
                   experimentMode, clock, page, reportData>>
    /\ UNCHANGED panelVars

handleSwap ==
    /\ ExperimentShown
    /\ isSwapped' = ~isSwapped
    /\ toast' = NoToast
    /\ UNCHANGED <<trueX, wireResistancePerCm, knownR, jockeyPos, readings,
                   selectedReadingId, isValueLocked, activeTab,
                   experimentMode, clock, page, reportData>>
    /\ UNCHANGED panelVars

(***************************************************************************)
(* handleRecord, the body of the Record Data handler.  R, swapped, mode    *)
(* and pos are the knownR, isSwapped, experimentMode and jockeyPos the     *)
(* callback closes over.                                                   *)
(***************************************************************************)
CanRecordL2IgnoringL2(existing) == existing.l1 # Null

\* the guard of the swapped branch: l1 is set and l2 is not
CanRecordL2(existing) == existing.l1 # Null /\ existing.l2 = Null

CanOverwriteL1Never(existing) == FALSE

\* the guard of "Allow overwriting l1 if l2 is not set yet"
CanOverwriteL1(existing) == existing.l2 = Null

\* the branch that records l1 (gaps not swapped)
RecordL1(R, mode, pos) ==
    LET currentPos == toFixed2(pos)
        currentReadings == readings[mode]
        idx == FindIndexByR(currentReadings, R)
    IN  IF idx = 0
        THEN /\ clock <= MaxId
             /\ readings' = [readings EXCEPT ![mode] =
                                Append(@, Reading(clock, R, currentPos, Null))]
             /\ selectedReadingId' = clock
             /\ toast' = NoToast
             /\ clock' = clock + 1
        ELSE IF CanOverwriteL1(currentReadings[idx])
             THEN /\ readings' = [readings EXCEPT ![mode][idx].l1 = currentPos]
                  /\ selectedReadingId' = currentReadings[idx].id
                  /\ toast' = NoToast
                  /\ clock' = clock
             ELSE /\ toast' = "Reading Complete"
                  /\ UNCHANGED <<readings, selectedReadingId, clock>>

RecordL2IgnoringSwap(R, mode, pos) == RecordL1(R, mode, pos)

\* the branch that records l2 (gaps swapped)
RecordL2(R, mode, pos) ==
    LET currentPos == toFixed2(pos)
        currentReadings == readings[mode]
        idx == FindIndexByR(currentReadings, R)
    IN  IF idx # 0
        THEN IF CanRecordL2(currentReadings[idx])
             THEN /\ readings' = [readings EXCEPT ![mode][idx].l2 = currentPos]
                  /\ selectedReadingId' = currentReadings[idx].id
                  /\ toast' = NoToast
                  /\ clock' = clock
             ELSE /\ toast' = NoToast
                  /\ UNCHANGED <<readings, selectedReadingId, clock>>
        ELSE /\ toast' = "Missing First Reading"
             /\ UNCHANGED <<readings, selectedReadingId, clock>>

RecordEffect(R, swapped, mode, pos) ==
    IF swapped THEN RecordL2(R, mode, pos) ELSE RecordL1(R, mode, pos)

RecordEnabledUngated == page = "home" /\ activeTab \in {"findX", "findRho"}

\* the Record Data button is disabled unless the bridge is balanced
RecordEnabled == ExperimentShown /\ isBalanced

handleRecord ==
    /\ RecordEnabled
    /\ RecordEffect(knownR, isSwapped, experimentMode, jockeyPos)
    /\ UNCHANGED <<trueX, wireResistancePerCm, knownR, jockeyPos, isSwapped,
                   isValueLocked, activeTab, experimentMode, page, reportData>>
    /\ UNCHANGED panelVars

handleResetKeepingReveal ==
    /\ ExperimentShown
    /\ readings' = [findX |-> <<>>, findRho |-> <<>>]
    /\ knownR' = InitialKnownR
    /\ jockeyPos' = InitialJockeyPos
    /\ selectedReadingId' = NoId
    /\ isSwapped' = FALSE
    /\ isValueLocked' = FALSE
    /\ trueX' = InitialTrueX
    /\ experimentMode' = "findX"
    /\ activeTab' = "aim"
    /\ wireResistancePerCm' \in RhoValues
    /\ aiSuggestion' = ""
    /\ toast' = NoToast
    /\ UNCHANGED <<clock, page, reportData, isTrueValueRevealed, isAiLoading,
                   aiRequest>>

handleReset ==
    /\ ExperimentShown
    /\ readings' = [findX |-> <<>>, findRho |-> <<>>]
    /\ knownR' = InitialKnownR
    /\ jockeyPos' = InitialJockeyPos
    /\ selectedReadingId' = NoId
    /\ isSwapped' = FALSE
    /\ isValueLocked' = FALSE
    /\ trueX' = InitialTrueX
    /\ experimentMode' = "findX"
    /\ activeTab' = "aim"
    /\ wireResistancePerCm' \in RhoValues
    /\ isTrueValueRevealed' = FALSE
    /\ aiSuggestion' = ""
    /\ toast' = NoToast
    /\ UNCHANGED <<clock, page, reportData, isAiLoading, aiRequest>>

\* the producer of handleDeleteReading: findIndex by id, then splice
DeleteFromDraft(currentReadings, id) ==
    LET index == FindIndexById(currentReadings, id)
    IN  IF index # 0 THEN Splice(currentReadings, index) ELSE currentReadings

\* the delete button of a table row of the displayed log
handleDeleteReading ==
    /\ ExperimentShown
    /\ \E id \in {r.id : r \in Range(readings[experimentMode])} :
          LET currentReadings == readings[experimentMode]
          IN  /\ readings' = [readings EXCEPT ![experimentMode] =
                                 DeleteFromDraft(currentReadings, id)]
              /\ selectedReadingId' = IF selectedReadingId = id
                                      THEN NoId ELSE selectedReadingId
              /\ aiSuggestion' = IF selectedReadingId = id
                                 THEN "" ELSE aiSuggestion
    /\ toast' = NoToast
    /\ UNCHANGED <<trueX, wireResistancePerCm, knownR, jockeyPos, isSwapped,
                   isValueLocked, activeTab, experimentMode, clock, page,
                   reportData, isTrueValueRevealed, isAiLoading, aiRequest>>

handleTrueXChangeWhileLocked ==
    /\ page = "home"
    /\ \E newValue \in TrueXInputs :
          IF IsNumber(newValue) /\ Lt(Zero, newValue)
          THEN /\ trueX' = newValue
               /\ isValueLocked' = TRUE
               /\ toast' = NoToast
          ELSE /\ toast' = "Invalid Value"
               /\ UNCHANGED <<trueX, isValueLocked>>
    /\ UNCHANGED <<wireResistancePerCm, knownR, jockeyPos, readings,
                   selectedReadingId, isSwapped, activeTab, experimentMode,
                   clock, page, reportData>>
    /\ UNCHANGED panelVars

\* the instructor dialog can be shown only while the value is not locked
handleTrueXChange ==
    /\ page = "home"
    /\ ~isValueLocked
    /\ \E newValue \in TrueXInputs :
          IF IsNumber(newValue) /\ Lt(Zero, newValue)
          THEN /\ trueX' = newValue
               /\ isValueLocked' = TRUE
               /\ toast' = NoToast
          ELSE /\ toast' = "Invalid Value"
               /\ UNCHANGED <<trueX, isValueLocked>>
    /\ UNCHANGED <<wireResistancePerCm, knownR, jockeyPos, readings,
                   selectedReadingId, isSwapped, activeTab, experimentMode,
                   clock, page, reportData>>
    /\ UNCHANGED panelVars

onTabChangeResetting ==
    /\ page = "home"
    /\ \E newTab \in TabValues :
          /\ activeTab' = newTab
          /\ experimentMode' = IF newTab \in ExperimentModes
                               THEN newTab ELSE experimentMode
    /\ readings' = [findX |-> <<>>, findRho |-> <<>>]
    /\ knownR' = InitialKnownR
    /\ jockeyPos' = InitialJockeyPos
    /\ selectedReadingId' = NoId
    /\ isSwapped' = FALSE
    /\ toast' = NoToast
    /\ UNCHANGED <<trueX, wireResistancePerCm, isValueLocked, clock, page,
                   reportData>>
    /\ UNCHANGED panelVars

onTabChange ==
    /\ page = "home"
    /\ \E newTab \in TabValues :
          /\ activeTab' = newTab
          /\ IF newTab \in ExperimentModes
             THEN /\ experimentMode' = newTab
                  /\ isSwapped' = FALSE
                  /\ selectedReadingId' = NoId
                  /\ aiSuggestion' = ""
             ELSE UNCHANGED <<experimentMode, isSwapped, selectedReadingId,
                              aiSuggestion>>
    /\ toast' = NoToast
    /\ UNCHANGED <<trueX, wireResistancePerCm, knownR, jockeyPos, readings,
                   isValueLocked, clock, page, reportData,
                   isTrueValueRevealed, isAiLoading, aiRequest>>

(***************************************************************************)
(* handleGenerateReport: the snapshot handed to the report view.  The      *)
(* dialog is opened by a button that is disabled while both logs are empty.*)
(***************************************************************************)
RadiusInMeters(radiusValue, unit) ==
    IF unit = "mm" THEN Mul(radiusValue, Rat(1, 1000))
    ELSE IF unit = "cm" THEN Mul(radiusValue, Rat(1, 100))
    ELSE radiusValue

LengthInMeters(lengthValue, unit) ==
    IF unit = "cm" THEN Div(lengthValue, Rat(100, 1))
    ELSE IF unit = "mm" THEN Div(lengthValue, Rat(1000, 1))
    ELSE lengthValue

ReportSnapshot(radiusValue, radiusUnit, lengthValue, lengthUnit) ==
    [present |-> TRUE,
     readings |-> readings,
     trueX |-> trueX,
     trueRho |-> Mul(wireResistancePerCm, Rat(100, 1)),
     wireRadius |-> RadiusInMeters(radiusValue, radiusUnit),
     wireLength |-> LengthInMeters(lengthValue, lengthUnit)]

\* router.push('/report') unmounts Home: its component state is discarded,
\* which the model shows as the useState initial values
HomeUnmounted ==
    /\ trueX' = InitialTrueX
    /\ wireResistancePerCm' = InitialWireResistancePerCm
    /\ knownR' = InitialKnownR
    /\ jockeyPos' = InitialJockeyPos
    /\ readings' = [findX |-> <<>>, findRho |-> <<>>]
    /\ selectedReadingId' = NoId
    /\ isSwapped' = FALSE
    /\ isValueLocked' = FALSE
    /\ activeTab' = "aim"
    /\ experimentMode' = "findX"
    /\ isTrueValueRevealed' = FALSE
    /\ aiSuggestion' = ""
    /\ isAiLoading' = FALSE

handleGenerateReport ==
    /\ page = "home"
    /\ ~(Len(readings.findX) = 0 /\ Len(readings.findRho) = 0)
    /\ \E radiusValue \in WireRadiusInputs, lengthValue \in WireLengthInputs,
          radiusUnit \in WireRadiusUnits, lengthUnit \in WireLengthUnits :
          IF \/ ~IsNumber(radiusValue) \/ Leq(radiusValue, Zero)
             \/ ~IsNumber(lengthValue) \/ Leq(lengthValue, Zero)
          THEN /\ toast' = "Invalid Input"
               /\ UNCHANGED <<page, reportData, trueX, wireResistancePerCm,
                              knownR, jockeyPos, readings, selectedReadingId,
                              isSwapped, isValueLocked, activeTab,
                              experimentMode, isTrueValueRevealed,
                              aiSuggestion, isAiLoading>>
          ELSE /\ reportData' = ReportSnapshot(radiusValue, radiusUnit,
                                               lengthValue, lengthUnit)
               /\ page' = "report"
               /\ toast' = NoToast
               /\ HomeUnmounted
    /\ UNCHANGED <<clock, aiRequest>>

Next ==
    \/ KnownRSlider
    \/ KnownRInput
    \/ handleMouseMove
    \/ handleSwap
    \/ handleRecord
    \/ handleReset
    \/ handleDeleteReading
    \/ handleTrueXChange
    \/ onTabChange
    \/ handleGenerateReport

Spec == Init /\ [][Next]_vars

(***************************************************************************)
(* Measurement Reducer of the live data panel (DataPanel).                 *)
(***************************************************************************)
NoText == ""

\* a null operand of an arithmetic operator counts as 0
ToNumber(v) == IF v = Null THEN Zero ELSE v

RECURSIVE SumSeq(_)
SumSeq(s) == IF Len(s) = 0 THEN Zero ELSE Add(s[1], SumSeq(Tail(s)))

IsNotNull(v) == v # Null

completeReadingsL1Only(log) == SelectSeq(log, LAMBDA r : r.l1 # Null)

completeReadings(log) == SelectSeq(log, IsComplete)

calculatedXMinus(r, rho) ==
    Sub(r.rValue, Mul(rho, Sub(ToNumber(r.l2), ToNumber(r.l1))))

calculatedX(r, rho) ==
    Add(r.rValue, Mul(rho, Sub(ToNumber(r.l2), ToNumber(r.l1))))

Deviation(estimate, trueValue) ==
    IF trueValue # Zero
    THEN Mul(Div(Sub(estimate, trueValue), trueValue), Hundred)
    ELSE Zero

DataPanelX(log, mode, rho, trueXValue) ==
    IF mode # "findX"
    THEN [finalCalculatedX |-> Null, calculationErrorX |-> NoText, deviationX |-> Null]
    ELSE LET complete == completeReadings(log)
         IN  IF Len(complete) = 0
             THEN [finalCalculatedX |-> Null,
                   calculationErrorX |-> "Requires a complete reading (l1 & l2).",
                   deviationX |-> Null]
             ELSE LET calculatedXs == [i \in DOMAIN complete |-> calculatedX(complete[i], rho)]
                      averageX == Div(SumSeq(calculatedXs), Rat(Len(calculatedXs), 1))
                  IN  [finalCalculatedX |-> averageX,
                       calculationErrorX |-> NoText,
                       deviationX |-> Deviation(averageX, trueXValue)]

rhoOfReadingZeroForEqual(r) ==
    LET diff == Sub(ToNumber(r.l2), ToNumber(r.l1))
    IN  IF diff # Zero THEN Div(r.rValue, diff) ELSE Zero

rhoOfReading(r) ==
    LET diff == Sub(ToNumber(r.l2), ToNumber(r.l1))
    IN  IF diff # Zero THEN Div(r.rValue, diff) ELSE Null

DataPanelRho(log, mode, rho) ==
    IF mode # "findRho"
    THEN [finalCalculatedRho |-> Null, calculationErrorRho |-> NoText, deviationRho |-> Null]
    ELSE LET complete == completeReadings(log)
         IN  IF Len(complete) = 0
             THEN [finalCalculatedRho |-> Null,
                   calculationErrorRho |-> "Requires a complete reading (l1 & l2).",
                   deviationRho |-> Null]
             ELSE LET rhos == SelectSeq([i \in DOMAIN complete |-> rhoOfReading(complete[i])],
                                        IsNotNull)
                  IN  IF Len(rhos) = 0
                      THEN [finalCalculatedRho |-> Null,
                            calculationErrorRho |-> "l1 and l2 cannot be the same.",
                            deviationRho |-> Null]
                      ELSE LET avgRho == Div(SumSeq(rhos), Rat(Len(rhos), 1))
                           IN  [finalCalculatedRho |-> avgRho,
                                calculationErrorRho |-> NoText,
                                deviationRho |-> Deviation(avgRho, rho)]

\* what the mounted DataPanel computes from its props
finalCalculatedX ==
    DataPanelX(readings[experimentMode], experimentMode, wireResistancePerCm, trueX)

finalCalculatedRho ==
    DataPanelRho(readings[experimentMode], experimentMode, wireResistancePerCm)

(***************************************************************************)
(* Measurement Reducer of the report view (ReportPage), run on the parsed  *)
(* snapshot.                                                               *)
(***************************************************************************)
ReportX(data) ==
    IF ~data.present
    THEN [finalCalculatedX |-> Null, calculationErrorX |-> NoText, deviationX |-> Null]
    ELSE LET findXReadings == SelectSeq(data.readings.findX, IsComplete)
         IN  IF Len(findXReadings) = 0
             THEN [finalCalculatedX |-> Null,
                   calculationErrorX |-> "Requires at least one complete reading (l1 and l2).",
                   deviationX |-> Null]
             ELSE LET calculatedXs ==
                          [i \in DOMAIN findXReadings |->
                              calculatedX(findXReadings[i], data.trueRho)]
                      averageX == Div(SumSeq(calculatedXs), Rat(Len(calculatedXs), 1))
                  IN  [finalCalculatedX |-> averageX,
                       calculationErrorX |-> NoText,
                       deviationX |-> Deviation(averageX, data.trueX)]

reportRhoOfReading(reading) ==
    LET R == reading.rValue
        l1_normal == Div(ToNumber(reading.l1), Hundred)
        l2_swapped == Div(ToNumber(reading.l2), Hundred)
    IN  IF Sub(l2_swapped, l1_normal) # Zero
        THEN Div(R, Sub(l2_swapped, l1_normal))
        ELSE Null

ReportRho(data) ==
    IF ~data.present
    THEN [finalCalculatedRho |-> Null, calculationErrorRho |-> NoText, deviationRho |-> Null]
    ELSE LET findRhoReadings == SelectSeq(data.readings.findRho, IsComplete)
         IN  IF Len(findRhoReadings) = 0
             THEN [finalCalculatedRho |-> Null,
                   calculationErrorRho |-> "Requires at least one complete reading (l1 and l2).",
                   deviationRho |-> Null]
             ELSE LET calculatedRhos ==
                          SelectSeq([i \in DOMAIN findRhoReadings |->
                                        reportRhoOfReading(findRhoReadings[i])],
                                    IsNotNull)
                  IN  IF Len(calculatedRhos) = 0
                      THEN [finalCalculatedRho |-> Null,
                            calculationErrorRho |->
                                "Could not calculate rho. Ensure l1 and l2 values are different.",
                            deviationRho |-> Null]
                      ELSE LET averageRho == Div(SumSeq(calculatedRhos),
                                                 Rat(Len(calculatedRhos), 1))
                               trueRhoMeters == Mul(data.trueRho, Hundred)
                           IN  [finalCalculatedRho |-> averageRho,
                                calculationErrorRho |-> NoText,
                                deviationRho |-> Deviation(averageRho, trueRhoMeters)]

\* specificResistanceS: (Math.PI * r_meters * r_meters * finalCalculatedX) / L.
\* The value is a rational multiple of pi; the operator gives that rational.
specificResistanceS(data) ==
    IF ~data.present \/ ReportX(data).finalCalculatedX = Null
    THEN Null
    ELSE LET r_meters == Mul(data.wireRadius, Rat(1, 1000))
             L == data.wireLength
         IN  Div(Mul(Mul(r_meters, r_meters), ReportX(data).finalCalculatedX), L)

(***************************************************************************)
(* What the data panel and the report show of the true value.              *)
(***************************************************************************)
\* DataPanel.renderCalculationResults: the true value and the deviation
\* badge of the displayed mode, Null where "?" or nothing is shown
renderCalculationResults(log, mode, rho, trueXValue, revealed) ==
    IF mode = "findX"
    THEN LET res == DataPanelX(log, mode, rho, trueXValue)
             isCalculated == res.finalCalculatedX # Null
         IN  [trueValue |-> IF revealed THEN trueXValue ELSE Null,
              deviation |-> IF revealed /\ isCalculated /\ res.deviationX # Null
                            THEN res.deviationX ELSE Null]
    ELSE LET res == DataPanelRho(log, mode, rho)
             isCalculated == res.finalCalculatedRho # Null
         IN  [trueValue |-> IF revealed THEN rho ELSE Null,
              deviation |-> IF revealed /\ isCalculated /\ res.deviationRho # Null
                            THEN res.deviationRho ELSE Null]

\* ReportPage.renderResults
renderResults(calculatedValue, trueValue, deviation) ==
    [trueValue |-> trueValue,
     deviation |-> IF calculatedValue # Null /\ deviation # Null
                   THEN deviation ELSE Null]

(***************************************************************************)
(* The reveal toggle of the data panel.                                    *)
(***************************************************************************)
canRevealUnconditional(log) == TRUE

canReveal(log) == Len(completeReadings(log)) >= 4

\* the Reveal / Hide True Value button, disabled unless canReveal
onRevealToggle ==
    /\ ExperimentShown
    /\ canReveal(readings[activeTab])
    /\ isTrueValueRevealed' = ~isTrueValueRevealed
    /\ toast' = NoToast
    /\ UNCHANGED <<trueX, wireResistancePerCm, knownR, jockeyPos, readings,
                   selectedReadingId, isSwapped, isValueLocked, activeTab,
                   experimentMode, clock, page, reportData, aiSuggestion,
                   isAiLoading, aiRequest>>

(***************************************************************************)
(* A session in which four readings have been taken in findX mode, the     *)
(* last one with or without its l2; every length is the balance position   *)
(* for its R, as the Record Data handler stores it.  No further Reading is *)
(* created (the clock is past MaxId).                                      *)
(***************************************************************************)
RecordedR == <<Rat(49, 10), Rat(52, 10), Rat(48, 10), Rat(51, 10)>>

RecordedReading(k, rho, withL2) ==
    Reading(MaxId + 1 + k, RecordedR[k],
            toFixed2(BalancePosition("findX", FALSE, RecordedR[k], InitialTrueX, rho)),
            IF withL2
            THEN toFixed2(BalancePosition("findX", TRUE, RecordedR[k], InitialTrueX, rho))
            ELSE Null)

RevealInit ==
    /\ trueX = InitialTrueX
    /\ wireResistancePerCm \in RhoValues
    /\ knownR = InitialKnownR
    /\ jockeyPos = InitialJockeyPos
    /\ \E lastComplete \in BOOLEAN :
          readings = [findX |-> <<RecordedReading(1, wireResistancePerCm, TRUE),
                                  RecordedReading(2, wireResistancePerCm, TRUE),
                                  RecordedReading(3, wireResistancePerCm, TRUE),
                                  RecordedReading(4, wireResistancePerCm, lastComplete)>>,
                      findRho |-> <<>>]
    /\ selectedReadingId = NoId
    /\ isSwapped = FALSE
    /\ isValueLocked = FALSE
    /\ activeTab = "findX"
    /\ experimentMode = "findX"
    /\ clock = MaxId + 1
    /\ toast = NoToast
    /\ page = "home"
    /\ reportData = NoReport
    /\ isTrueValueRevealed = FALSE
    /\ aiSuggestion = ""
    /\ isAiLoading = FALSE
    /\ aiRequest = NoRequest

RevealNext == Next \/ onRevealToggle

RevealSpec == RevealInit /\ [][RevealNext]_vars

(***************************************************************************)
(* The assistant: the server action getAiSuggestion and the handler         *)
(* handleGetSuggestion of the revision of Home that has it.  The handler   *)
(* is asynchronous: handleGetSuggestion is its part up to the await,       *)
(* afterGetAiSuggestion the part that runs when the call returns.          *)
(***************************************************************************)
\* getAiSuggestion: try / catch around the flow
getAiSuggestion(outcome) ==
    IF outcome = "throws"
    THEN [success |-> FALSE, suggestion |-> "",
          error |-> "Failed to get suggestion from AI"]
    ELSE [success |-> TRUE,
          suggestion |-> IF outcome = "empty" THEN "" ELSE "suggestions",
          error |-> ""]

\* the approximation sent to the assistant
calculatedXForAI(selectedReading) ==
    Add(selectedReading.rValue,
        Mul(Sub(Mul(Rat(2, 1), selectedReading.l1), Hundred), WIRE_RESISTANCE_PER_CM))

\* the Get Help button: disabled while loading or without a selected
\* reading that has its l1; the AI Help tab is disabled in findRho mode
handleGetSuggestion ==
    /\ ExperimentShown
    /\ experimentMode # "findRho"
    /\ ~isAiLoading
    /\ \E i \in DOMAIN readings[experimentMode] :
          LET selectedReading == readings[experimentMode][i]
          IN  /\ selectedReading.id = selectedReadingId
              /\ selectedReading.l1 # Null
              /\ aiRequest' = [pending |-> TRUE,
                               R |-> selectedReading.rValue,
                               l1 |-> selectedReading.l1,
                               l2 |-> Sub(Hundred, selectedReading.l1),
                               X |-> toFixed2(calculatedXForAI(selectedReading))]
    /\ isAiLoading' = TRUE
    /\ aiSuggestion' = ""
    /\ toast' = NoToast
    /\ UNCHANGED <<trueX, wireResistancePerCm, knownR, jockeyPos, readings,
                   selectedReadingId, isSwapped, isValueLocked, activeTab,
                   experimentMode, clock, page, reportData,
                   isTrueValueRevealed>>

afterGetAiSuggestionSilent(outcome) ==
    /\ aiRequest.pending
    /\ aiRequest' = NoRequest
    /\ isAiLoading' = FALSE
    /\ aiSuggestion' = IF page = "home" THEN getAiSuggestion(outcome).suggestion
                       ELSE aiSuggestion
    /\ toast' = NoToast
    /\ UNCHANGED <<trueX, wireResistancePerCm, knownR, jockeyPos, readings,
                   selectedReadingId, isSwapped, isValueLocked, activeTab,
                   experimentMode, clock, page, reportData,
                   isTrueValueRevealed>>

\* the handler after the await; once Home is unmounted its state setters
\* have no effect, the toast is still raised
afterGetAiSuggestion(outcome) ==
    /\ aiRequest.pending
    /\ LET result == getAiSuggestion(outcome)
       IN  IF result.success /\ result.suggestion # ""
           THEN /\ aiSuggestion' = IF page = "home" THEN result.suggestion
                                   ELSE aiSuggestion
                /\ toast' = NoToast
           ELSE /\ toast' = "AI Suggestion Failed"
                /\ UNCHANGED aiSuggestion
    /\ isAiLoading' = FALSE
    /\ aiRequest' = NoRequest
    /\ UNCHANGED <<trueX, wireResistancePerCm, knownR, jockeyPos, readings,
                   selectedReadingId, isSwapped, isValueLocked, activeTab,
                   experimentMode, clock, page, reportData,
                   isTrueValueRevealed>>

getAiSuggestionReturns == \E outcome \in ServiceOutcomes : afterGetAiSuggestion(outcome)

SuggestionNext == Next \/ handleGetSuggestion \/ getAiSuggestionReturns

SuggestionSpec == Init /\ [][SuggestionNext]_vars

(***************************************************************************)
(* Properties.                                                             *)
(***************************************************************************)
HasBothLengths(r) == r.l1 # Null /\ r.l2 # Null

OnWire(pos) == Leq(Zero, pos) /\ Leq(pos, Hundred)

CompleteCount(log) == Cardinality({i \in DOMAIN log : HasBothLengths(log[i])})

\* C1: in FindUnknownResistance mode, a reading whose l1 is the exact
\* unswapped balance position and whose l2 is the exact swapped balance
\* position for its R (both on the wire) reduces to the true X.
C1_RoundTripX ==
    \A i \in DOMAIN readings.findX :
        LET r == readings.findX[i]
            exact1 == BalancePosition("findX", FALSE, r.rValue, trueX, wireResistancePerCm)
            exact2 == BalancePosition("findX", TRUE, r.rValue, trueX, wireResistancePerCm)
        IN  (/\ OnWire(exact1) /\ OnWire(exact2)
             /\ r.l1 = exact1 /\ r.l2 = exact2)
            => DataPanelX(<<r>>, "findX", wireResistancePerCm, trueX).finalCalculatedX = trueX

\* the sum, over the complete readings among the first n of the log, of
\* R + rho * (l2 - l1)
RECURSIVE XEstimateTotal(_, _, _)
XEstimateTotal(log, n, rho) ==
    IF n = 0 THEN Zero
    ELSE Add(XEstimateTotal(log, n - 1, rho),
             IF HasBothLengths(log[n])
             THEN Add(log[n].rValue, Mul(rho, Sub(log[n].l2, log[n].l1)))
             ELSE Zero)

IsMeanX(value, log, rho) ==
    CompleteCount(log) > 0 =>
        /\ IsNumber(value)
        /\ Mul(value, Rat(CompleteCount(log), 1)) = XEstimateTotal(log, Len(log), rho)

\* C2: the X-mode reducer (live panel and report view) returns the
\* arithmetic mean of R + rho * (l2 - l1) over the complete readings of the
\* FindUnknownResistance log; incomplete readings do not count.
C2_MeanOverCompleteReadings ==
    /\ IsMeanX(DataPanelX(readings.findX, "findX", wireResistancePerCm, trueX).finalCalculatedX,
               readings.findX, wireResistancePerCm)
    /\ reportData.present =>
          IsMeanX(ReportX(reportData).finalCalculatedX,
                  reportData.readings.findX, reportData.trueRho)

C2_Witness ==
    /\ \E i \in DOMAIN readings.findX : HasBothLengths(readings.findX[i])
    /\ \E i \in DOMAIN readings.findX : ~HasBothLengths(readings.findX[i])

IsUndeterminedX(res) ==
    /\ res.finalCalculatedX = Null
    /\ res.deviationX = Null
    /\ res.calculationErrorX # NoText

\* C3: when the FindUnknownResistance log holds no reading with both
\* lengths (the empty log included), the X-mode reducer yields no value and
\* no deviation, and a non-empty reason.
C3_UndeterminedWithoutCompleteReading ==
    /\ CompleteCount(readings.findX) = 0 =>
          IsUndeterminedX(DataPanelX(readings.findX, "findX", wireResistancePerCm, trueX))
    /\ (reportData.present /\ CompleteCount(reportData.readings.findX) = 0) =>
          IsUndeterminedX(ReportX(reportData))

C3_Witness ==
    /\ experimentMode = "findX"
    /\ Len(readings.findX) > 0
    /\ CompleteCount(readings.findX) = 0

Usable(r) == HasBothLengths(r) /\ r.l2 # r.l1

UsableCount(log) == Cardinality({i \in DOMAIN log : Usable(log[i])})

\* the sum, over the usable readings among the first n of the log, of
\* R / (l2 - l1), the lengths taken in units of cmPerUnit centimetres
RECURSIVE RhoEstimateTotal(_, _, _)
RhoEstimateTotal(log, n, cmPerUnit) ==
    IF n = 0 THEN Zero
    ELSE Add(RhoEstimateTotal(log, n - 1, cmPerUnit),
             IF Usable(log[n])
             THEN Div(log[n].rValue, Div(Sub(log[n].l2, log[n].l1), cmPerUnit))
             ELSE Zero)

IsGuardedMeanRho(res, log, cmPerUnit) ==
    IF UsableCount(log) = 0
    THEN /\ res.finalCalculatedRho = Null
         /\ res.deviationRho = Null
         /\ res.calculationErrorRho # NoText
    ELSE /\ IsNumber(res.finalCalculatedRho)
         /\ Mul(res.finalCalculatedRho, Rat(UsableCount(log), 1))
               = RhoEstimateTotal(log, Len(log), cmPerUnit)

\* C4: the rho-mode reducer returns the arithmetic mean of R / (l2 - l1)
\* over the complete readings with l2 # l1 (the live panel per cm, the
\* report view per m); a complete reading with l2 = l1 is left out, and
\* with no usable reading the result is undetermined, with a reason.
C4_RhoMeanExcludesEqualLengths ==
    /\ IsGuardedMeanRho(DataPanelRho(readings.findRho, "findRho", wireResistancePerCm),
                        readings.findRho, Rat(1, 1))
    /\ reportData.present =>
          IsGuardedMeanRho(ReportRho(reportData), reportData.readings.findRho, Hundred)

C4_Witness ==
    /\ \E i \in DOMAIN readings.findRho :
          HasBothLengths(readings.findRho[i]) /\ readings.findRho[i].l1 = readings.findRho[i].l2
    /\ \E i \in DOMAIN readings.findRho : Usable(readings.findRho[i])

HandOver == page = "home" /\ page' = "report"

\* C5: at the hand-over to the report view, the mean X the report computes
\* from the snapshot equals the mean X the live panel computes from the
\* same log, true X and wire resistivity.
C5_ReportMeanXEqualsPanel ==
    [][HandOver =>
          ReportX(reportData').finalCalculatedX
             = DataPanelX(readings.findX, "findX", wireResistancePerCm, trueX).finalCalculatedX]_vars

\* C6: at the hand-over to the report view, the percentage deviation of the
\* mean rho from the true resistivity in the report equals the one of the
\* live panel for the same log.
C6_ReportRhoDeviationEqualsPanel ==
    [][HandOver =>
          ReportRho(reportData').deviationRho
             = DataPanelRho(readings.findRho, "findRho", wireResistancePerCm).deviationRho]_vars

\* some log holds, after the step, a Reading it did not hold before
LengthRecorded ==
    \E m \in ExperimentModes :
        \E j \in DOMAIN readings'[m] : readings'[m][j] \notin Range(readings[m])

\* C7: a step adds or changes a Reading only if, when it is taken,
\* abs((jockeyPos - balancePoint) * SENSITIVITY_FACTOR) is below the
\* tolerance.
C7_RecordOnlyWhenBalanced ==
    [][LengthRecorded =>
          Lt(Abs(Mul(Sub(jockeyPos, balancePoint), SENSITIVITY_FACTOR)),
             BALANCE_TOLERANCE)]_vars

C7_Witness ==
    /\ \E i \in DOMAIN readings.findRho : HasBothLengths(readings.findRho[i])
    /\ ~Lt(Abs(Mul(Sub(jockeyPos, balancePoint), SENSITIVITY_FACTOR)), BALANCE_TOLERANCE)

\* C8: a Reading with both lengths set is final: after any step of the
\* session it is still the only Reading of its knownResistance in its log,
\* with the same id, l1 and l2, unless a delete or a reset removed it.
C8_CompleteReadingIsFinal ==
    [][page' = "home" =>
          \A m \in ExperimentModes : \A i \in DOMAIN readings[m] :
              HasBothLengths(readings[m][i]) =>
                  LET r == readings[m][i]
                      after == {j \in DOMAIN readings'[m] :
                                   readings'[m][j].rValue = r.rValue}
                  IN  \/ /\ Cardinality(after) = 1
                         /\ \A j \in after : readings'[m][j] = r
                      \/ /\ after = {}
                         /\ (handleDeleteReading \/ handleReset)]_vars

CompleteForKnownR ==
    \E i \in DOMAIN readings[experimentMode] :
        /\ readings[experimentMode][i].rValue = knownR
        /\ HasBothLengths(readings[experimentMode][i])

C8_Witness == toast = "Reading Complete" /\ CompleteForKnownR

\* C9: every record action taken while a Complete Reading exists for the
\* selected knownResistance, the gaps swapped or not, raises a message.
C9_RecordOnCompleteNotifies ==
    [][(CompleteForKnownR /\ handleRecord) => toast' # NoToast]_vars

\* C10: a record action with the gaps swapped while the current mode's log
\* holds no Reading for the selected knownResistance raises a message and
\* leaves both logs unchanged.
C10_SwappedRecordWithoutL1Rejected ==
    [][(/\ isSwapped
        /\ page' = page
        /\ jockeyPos' = jockeyPos
        /\ \A i \in DOMAIN readings[experimentMode] :
              readings[experimentMode][i].rValue # knownR
        /\ handleRecord)
       => (toast' # NoToast /\ readings' = readings)]_vars

C10_Witness ==
    /\ toast = "Missing First Reading"
    /\ isSwapped
    /\ \E m \in ExperimentModes : Len(readings[m]) > 0

\* C11: a step that changes a reading log and stays on the home page is
\* either the reset, or it keeps the experiment mode and changes only the
\* log of that mode; so record and delete touch the current mode's log
\* only, and a tab switch changes neither log.
C11_LogsAreIndependent ==
    [][(readings' # readings /\ page' = "home") =>
          \/ handleReset
          \/ /\ experimentMode' = experimentMode
             /\ \A m \in ExperimentModes \ {experimentMode} :
                   readings'[m] = readings[m]]_vars

C11_Witness ==
    /\ experimentMode = "findRho"
    /\ Len(readings.findX) > 0
    /\ Len(readings.findRho) > 0

\* the gap resistances that occur in the current state
GapValues == {knownR, trueX, Zero}

\* C13: with equal resistances in the two gaps the balance position is
\* exactly 50 cm, for the resistivity of the session.
C13_EqualGapsBalanceAtMidpoint ==
    /\ \A a \in GapValues :
          BalanceFromGaps(a, a, wireResistancePerCm) = Rat(50, 1)
    /\ rLeft(experimentMode, isSwapped, knownR, trueX)
          = rRight(experimentMode, isSwapped, knownR, trueX)
       => balancePoint = Rat(50, 1)

C13_Witness ==
    /\ ExperimentShown
    /\ experimentMode = "findRho"
    /\ knownR = Zero
    /\ balancePoint = Rat(50, 1)

\* C14: the balance positions for (left = a, right = b) and for
\* (left = b, right = a) add up to 100 cm, and so do the balance positions
\* of the current mode with the gaps unswapped and swapped.
C14_SwapMirrorsBalance ==
    /\ \A b \in {trueX, Zero} :
          Add(BalanceFromGaps(knownR, b, wireResistancePerCm),
              BalanceFromGaps(b, knownR, wireResistancePerCm)) = Hundred
    /\ Add(BalancePosition(experimentMode, FALSE, knownR, trueX, wireResistancePerCm),
           BalancePosition(experimentMode, TRUE, knownR, trueX, wireResistancePerCm))
          = Hundred

C14_Witness ==
    /\ ExperimentShown
    /\ isSwapped
    /\ balancePoint # Rat(50, 1)
    /\ OnWire(balancePoint)

\* C15: the resistances fed to the balance formula are, in findX mode,
\* left = knownR and right = trueX (swapped: left = trueX, right = knownR)
\* and, in findRho mode, left = knownR and right = 0 (swapped: left = 0,
\* right = knownR).
C15_GapAssignment ==
    LET left == rLeft(experimentMode, isSwapped, knownR, trueX)
        right == rRight(experimentMode, isSwapped, knownR, trueX)
    IN  /\ (experimentMode = "findX" /\ ~isSwapped) => (left = knownR /\ right = trueX)
        /\ (experimentMode = "findX" /\ isSwapped) => (left = trueX /\ right = knownR)
        /\ (experimentMode = "findRho" /\ ~isSwapped) => (left = knownR /\ right = Zero)
        /\ (experimentMode = "findRho" /\ isSwapped) => (left = Zero /\ right = knownR)
        /\ balancePoint = BalanceFromGaps(left, right, wireResistancePerCm)

C15_Witness ==
    /\ ExperimentShown
    /\ experimentMode = "findRho"
    /\ isSwapped
    /\ knownR # Zero
    /\ isBalanced

\* C20: a Reading that holds an l2 after a step either held one before, or
\* had its l1 set and no l2, belongs to the current mode's log and to the
\* selected knownR, and the step is a record taken with the gaps swapped.
C20_L2SetOnlyBySwappedRecord ==
    [][\A m \in ExperimentModes : \A j \in DOMAIN readings'[m] :
          readings'[m][j].l2 # Null =>
              \E i \in DOMAIN readings[m] :
                  /\ readings[m][i].id = readings'[m][j].id
                  /\ \/ readings[m][i].l2 # Null
                     \/ /\ readings[m][i].l1 # Null
                        /\ isSwapped
                        /\ m = experimentMode
                        /\ knownR = readings[m][i].rValue
                        /\ handleRecord]_vars

C20_Witness ==
    /\ isSwapped
    /\ toast = NoToast
    /\ \E i \in DOMAIN readings[experimentMode] :
          /\ HasBothLengths(readings[experimentMode][i])
          /\ readings[experimentMode][i].id = selectedReadingId
          /\ readings[experimentMode][i].rValue = knownR
          /\ readings[experimentMode][i].l2 = toFixed2(jockeyPos)

\* C19: at the hand-over to the report view, for the radius and length the
\* user entered, the specific resistance of the report is
\* pi * r^2 * X_mean / L with r and L the entered values converted once to
\* metres (both sides as multiples of pi).
C19_SpecificResistanceUsesMetres ==
    [][HandOver =>
          \A radiusValue \in WireRadiusInputs, lengthValue \in WireLengthInputs,
             radiusUnit \in WireRadiusUnits, lengthUnit \in WireLengthUnits :
              (/\ IsNumber(radiusValue) /\ Lt(Zero, radiusValue)
               /\ IsNumber(lengthValue) /\ Lt(Zero, lengthValue)
               /\ reportData' = ReportSnapshot(radiusValue, radiusUnit,
                                               lengthValue, lengthUnit)
               /\ ReportX(reportData').finalCalculatedX # Null)
              => LET r == RadiusInMeters(radiusValue, radiusUnit)
                     L == LengthInMeters(lengthValue, lengthUnit)
                 IN  specificResistanceS(reportData')
                        = Div(Mul(Mul(r, r), ReportX(reportData').finalCalculatedX), L)]_vars

\* the state every reset leads to
AfterReset ==
    /\ readings' = [findX |-> <<>>, findRho |-> <<>>]
    /\ selectedReadingId' = NoId
    /\ ~isSwapped'
    /\ ~isTrueValueRevealed'
    /\ ~isValueLocked'
    /\ knownR' = InitialKnownR
    /\ jockeyPos' = InitialJockeyPos
    /\ trueX' = InitialTrueX
    /\ experimentMode' = "findX"

\* C12 as stated: in every reachable state the reset is enabled, and after
\* it both logs are empty, the selection is cleared, the gaps are unswapped,
\* the true value is hidden and unlocked, and knownR, jockeyPos, trueX and
\* experimentMode have their initial values.
C12_ResetEnabledEverywhere ==
    /\ [](ENABLED handleReset)
    /\ [][handleReset => AfterReset]_vars

\* C12, amended: in every reachable state that shows an experiment tab
\* (findX or findRho, where the Reset button is mounted) the reset is
\* enabled, and after it both logs are empty, the selection is cleared, the
\* gaps are unswapped, the true value is hidden and unlocked, and knownR,
\* jockeyPos, trueX and experimentMode have their initial values.
C12_ResetEnabledOnExperimentTabs ==
    /\ [](ExperimentShown => ENABLED handleReset)
    /\ [][handleReset => AfterReset]_vars

\* in RevealSpec only a reset leads back to the aim tab on the home page
C12_Witness ==
    /\ page = "home"
    /\ activeTab = "aim"
    /\ readings = [findX |-> <<>>, findRho |-> <<>>]
    /\ ~isTrueValueRevealed
    /\ ~ENABLED handleReset

\* (meanEstimate - trueValue) / trueValue * 100
DeviationFormula(meanEstimate, trueValue) ==
    Mul(Div(Sub(meanEstimate, trueValue), trueValue), Hundred)

\* C16: a deviation shown by the live panel is
\* (meanEstimate - trueValue) / trueValue * 100 and is shown only while the
\* true value is revealed; the report, too, shows a deviation only for a
\* session whose true value is revealed at the hand-over.
C16_DeviationOnlyWhenRevealed ==
    /\ [](ExperimentShown =>
            LET shown == renderCalculationResults(readings[activeTab], experimentMode,
                                                  wireResistancePerCm, trueX,
                                                  isTrueValueRevealed)
                mean == IF experimentMode = "findX"
                        THEN finalCalculatedX.finalCalculatedX
                        ELSE finalCalculatedRho.finalCalculatedRho
                trueValue == IF experimentMode = "findX" THEN trueX
                             ELSE wireResistancePerCm
            IN  shown.deviation # Null =>
                   /\ isTrueValueRevealed
                   /\ shown.deviation = DeviationFormula(mean, trueValue))
    /\ [][HandOver =>
            LET x == ReportX(reportData')
                rho == ReportRho(reportData')
            IN  (\/ renderResults(x.finalCalculatedX, reportData'.trueX,
                                  x.deviationX).deviation # Null
                 \/ renderResults(rho.finalCalculatedRho,
                                  Mul(reportData'.trueRho, Hundred),
                                  rho.deviationRho).deviation # Null)
                => isTrueValueRevealed]_vars

\* C17: a step that changes the revealed flag and is not the reset is taken
\* in a state that shows a log with at least 4 complete readings; with
\* fewer, the flag keeps its value.
C17_RevealNeedsFourCompleteReadings ==
    [][(isTrueValueRevealed' # isTrueValueRevealed /\ page' = "home") =>
          \/ handleReset
          \/ /\ ExperimentShown
             /\ CompleteCount(readings[activeTab]) >= 4]_vars

C17_Witness ==
    /\ ExperimentShown
    /\ isTrueValueRevealed
    /\ CompleteCount(readings[activeTab]) < 4

\* C18: getAiSuggestion turns a throwing flow into an error value; the
\* step that handles it raises the one notification of the request, ends
\* the request without sending another, and leaves both logs unchanged; no
\* other step raises that notification, and a request is sent only by the
\* Get Help button.
C18_SuggestionFailureIsOneNotification ==
    /\ [](/\ ~getAiSuggestion("throws").success
          /\ getAiSuggestion("throws").error # "")
    /\ [][/\ afterGetAiSuggestion("throws") =>
                /\ toast' = "AI Suggestion Failed"
                /\ ~aiRequest'.pending
                /\ readings' = readings
          /\ (toast' = "AI Suggestion Failed" /\ toast' # toast) =>
                (aiRequest.pending /\ ~aiRequest'.pending)
          /\ (aiRequest'.pending /\ aiRequest' # aiRequest) =>
                (~aiRequest.pending /\ handleGetSuggestion)]_vars

C18_Witness ==
    /\ page = "home"
    /\ toast = "AI Suggestion Failed"
    /\ ~aiRequest.pending
    /\ ~isAiLoading
    /\ aiSuggestion = ""
    /\ \E i \in DOMAIN readings.findX : readings.findX[i].id = selectedReadingId

\* C21: a record with the gaps unswapped, for a knownR whose Reading has its
\* l1 and no l2, puts the recorded position (the jockey position with two
\* decimals) into that Reading's l1, keeps its id and its absent l2, keeps
\* every other Reading and the length of both logs.
C21_UnswappedRecordOverwritesL1 ==
    [][(/\ ~isSwapped
        /\ page' = page
        /\ jockeyPos' = jockeyPos
        /\ FindIndexByR(readings[experimentMode], knownR) # 0
        /\ IsNotNull(readings[experimentMode][FindIndexByR(readings[experimentMode], knownR)].l1)
        /\ readings[experimentMode][FindIndexByR(readings[experimentMode], knownR)].l2 = Null
        /\ handleRecord)
       => LET idx == FindIndexByR(readings[experimentMode], knownR)
          IN  /\ readings' = [readings EXCEPT ![experimentMode][idx].l1 = toFixed2(jockeyPos)]
              /\ Len(readings'[experimentMode]) = Len(readings[experimentMode])
              /\ readings'[experimentMode][idx].id = readings[experimentMode][idx].id
              /\ readings'[experimentMode][idx].l2 = Null
              /\ Leq(Abs(Sub(readings'[experimentMode][idx].l1, jockeyPos)), Rat(5, 1000))]_vars

\* the older of two Readings holds a position that balances only after the
\* true resistance was changed, the newer one was taken before that change:
\* the older one's l1 has been recorded again
C21_Witness ==
    /\ ExperimentShown
    /\ experimentMode = "findX"
    /\ ~isSwapped
    /\ trueX # InitialTrueX
    /\ Len(readings.findX) = 2
    /\ LET first == readings.findX[1]
           second == readings.findX[2]
       IN  /\ first.id < second.id
           /\ first.rValue = knownR
           /\ first.l1 = toFixed2(jockeyPos)
           /\ first.l2 = Null
           /\ selectedReadingId = first.id
           /\ ~Balanced(Deflection(first.l1,
                  BalancePosition("findX", FALSE, first.rValue, InitialTrueX,
                                  wireResistancePerCm)))
           /\ Balanced(Deflection(second.l1,
                  BalancePosition("findX", FALSE, second.rValue, InitialTrueX,
                                  wireResistancePerCm)))

\* C22: every Reading of either log has a strictly positive knownResistance.
C22_KnownResistancePositive ==
    \A m \in ExperimentModes : \A i \in DOMAIN readings[m] :
        Lt(Zero, readings[m][i].rValue)

(***************************************************************************)
(* The session with the known resistance at a slider value for which the   *)
(* balance point of the initial true resistance is the left end of the     *)
(* wire (for the larger resistivity) or beyond it.                         *)
(***************************************************************************)
EndOfWireKnownR == Rat(58, 10)

EndOfWireInit ==
    /\ trueX = InitialTrueX
    /\ wireResistancePerCm \in RhoValues
    /\ knownR = EndOfWireKnownR
    /\ jockeyPos = InitialJockeyPos
    /\ readings = [findX |-> <<>>, findRho |-> <<>>]
    /\ selectedReadingId = NoId
    /\ isSwapped = FALSE
    /\ isValueLocked = FALSE
    /\ activeTab = "findX"
    /\ experimentMode = "findX"
    /\ clock = 1
    /\ toast = NoToast
    /\ page = "home"
    /\ reportData = NoReport
    /\ isTrueValueRevealed = FALSE
    /\ aiSuggestion = ""
    /\ isAiLoading = FALSE
    /\ aiRequest = NoRequest

EndOfWireSpec == EndOfWireInit /\ [][Next]_vars

\* C23: the jockey position and every recorded l1 and l2 of every Reading
\* lie in the closed interval [0, 100] cm.
C23_RecordedLengthsOnWire ==
    /\ Leq(Zero, jockeyPos) /\ Leq(jockeyPos, Hundred)
    /\ \A m \in ExperimentModes : \A i \in DOMAIN readings[m] :
          /\ IsNotNull(readings[m][i].l1) =>
                (Leq(Zero, readings[m][i].l1) /\ Leq(readings[m][i].l1, Hundred))
          /\ IsNotNull(readings[m][i].l2) =>
                (Leq(Zero, readings[m][i].l2) /\ Leq(readings[m][i].l2, Hundred))

\* a Reading taken with the pointer left of the wire: the clamped position
C23_Witness ==
    \E i \in DOMAIN readings.findX :
        /\ readings.findX[i].rValue = EndOfWireKnownR
        /\ readings.findX[i].l1 = Zero

(***************************************************************************)
(* The session after the instructor confirmed a true resistance in the     *)
(* Instructor Setup dialog.                                                *)
(***************************************************************************)
InstructorTrueX == Rat(49, 10)

InstructorSetInit ==
    /\ trueX = InstructorTrueX
    /\ wireResistancePerCm \in RhoValues
    /\ knownR = InitialKnownR
    /\ jockeyPos = InitialJockeyPos
    /\ readings = [findX |-> <<>>, findRho |-> <<>>]
    /\ selectedReadingId = NoId
    /\ isSwapped = FALSE
    /\ isValueLocked = TRUE
    /\ activeTab = "aim"
    /\ experimentMode = "findX"
    /\ clock = 1
    /\ toast = NoToast
    /\ page = "home"
    /\ reportData = NoReport
    /\ isTrueValueRevealed = FALSE
    /\ aiSuggestion = ""
    /\ isAiLoading = FALSE
    /\ aiRequest = NoRequest

InstructorSetSpec == InstructorSetInit /\ [][Next]_vars

\* C24: the true unknown resistance is strictly positive in every state;
\* while Home is shown, a step that changes a locked value is the reset; the
\* step to the report hands the value over unchanged; a confirmed input is
\* either a positive number, which is stored and locked, or is rejected
\* with a message and leaves the value and the lock as they were.
C24_TrueXPositiveAndSetOnce ==
    /\ [](IsNumber(trueX) /\ Lt(Zero, trueX))
    /\ [][/\ (isValueLocked /\ trueX' # trueX /\ page' = "home") => handleReset
          /\ (page = "home" /\ page' = "report") => reportData'.trueX = trueX
          /\ toast' = "Invalid Value" =>
                (trueX' = trueX /\ isValueLocked' = isValueLocked)
          /\ (~isValueLocked /\ page' = page /\ knownR' = knownR
                /\ handleTrueXChange) =>
                \/ /\ toast' = "Invalid Value"
                   /\ trueX' = trueX
                   /\ ~isValueLocked'
                \/ /\ toast' = NoToast
                   /\ trueX' \in TrueXInputs
                   /\ Lt(Zero, trueX')
                   /\ isValueLocked']_vars

C24_Witness ==
    /\ page = "home"
    /\ isValueLocked
    /\ trueX # InitialTrueX
    /\ ~ENABLED handleTrueXChange
    /\ \E m \in ExperimentModes : Len(readings[m]) > 0

\* C25: a delete step removes from the current mode's log the one Reading
\* that has the id of the clicked row, keeps the other Readings in their
\* order and the other mode's log, and clears the selection exactly when
\* that Reading was the selected one; for an id that no Reading of a log
\* has, the producer leaves the log as it is.
C25_DeleteRemovesExactlyOne ==
    /\ [](\A m \in ExperimentModes : \A id \in 0..(MaxId + 5) :
             (\A i \in DOMAIN readings[m] : readings[m][i].id # id)
                => DeleteFromDraft(readings[m], id) = readings[m])
    /\ [][(/\ page' = page
           /\ jockeyPos' = jockeyPos
           /\ knownR' = knownR
           /\ handleDeleteReading)
          => \E i \in DOMAIN readings[experimentMode] :
                LET id == readings[experimentMode][i].id
                    Keep(r) == r.id # id
                IN  /\ readings'[experimentMode]
                          = SelectSeq(readings[experimentMode], Keep)
                    /\ Len(readings'[experimentMode])
                          = Len(readings[experimentMode]) - 1
                    /\ \A m \in ExperimentModes \ {experimentMode} :
                          readings'[m] = readings[m]
                    /\ selectedReadingId' = IF selectedReadingId = id
                                            THEN NoId ELSE selectedReadingId]_vars

\* three of the four recorded Readings are left, the second one is gone,
\* and the selection made by a record of the fourth is still in place
C25_Witness ==
    /\ ExperimentShown
    /\ experimentMode = "findX"
    /\ Len(readings.findX) = 3
    /\ readings.findX[1].id = MaxId + 2
    /\ readings.findX[2].id = MaxId + 4
    /\ readings.findX[3].id = MaxId + 5
    /\ selectedReadingId = MaxId + 5

\* C26: in each mode's log no two Readings have the same knownResistance,
\* and every Reading has its l1 (so none has an l2 without an l1).
C26_OneReadingPerRWithL1 ==
    \A m \in ExperimentModes :
        /\ \A i, j \in DOMAIN readings[m] :
              readings[m][i].rValue = readings[m][j].rValue => i = j
        /\ \A i \in DOMAIN readings[m] :
              /\ IsNotNull(readings[m][i].l1)
              /\ IsNotNull(readings[m][i].l2) => IsNotNull(readings[m][i].l1)

\* a record for a knownR whose Reading is complete was refused while a new
\* Reading could still be created
C26_Witness ==
    /\ ExperimentShown
    /\ toast = "Reading Complete"
    /\ clock <= MaxId
    /\ \E i \in DOMAIN readings[experimentMode] :
          /\ readings[experimentMode][i].rValue = knownR
          /\ IsComplete(readings[experimentMode][i])

\* C27: whenever the data panel shows the true value of the displayed mode,
\* the displayed log holds at least 4 complete readings.
C27_ShownTrueValueHasFourComplete ==
    ExperimentShown =>
        (IsNotNull(renderCalculationResults(readings[activeTab], experimentMode,
                                            wireResistancePerCm, trueX,
                                            isTrueValueRevealed).trueValue)
            => Len(completeReadings(readings[activeTab])) >= 4)

\* known resistances of the findRho slider range for which the reducer is
\* evaluated, next to the selected one
RhoModeResistances == {Rat(5, 10), Rat(8, 10), Rat(2, 1)}

\* the balance positions of a known resistance in findRho mode
RhoModeL1(R) == BalancePosition("findRho", FALSE, R, trueX, wireResistancePerCm)
RhoModeL2(R) == BalancePosition("findRho", TRUE, R, trueX, wireResistancePerCm)

NearestOnWire(pos) == Max(Zero, Min(Hundred, pos))

\* C29: for a knownR inside the slider range of the current mode and for
\* both swap states, some jockey position in [0, 100] cm is balanced.
C29_BalanceExistsForSelectableR ==
    (/\ ExperimentShown
     /\ Leq(SliderMin(experimentMode), knownR)
     /\ Leq(knownR, SliderMax(experimentMode)))
    => \A swapped \in BOOLEAN :
          LET bp == BalancePosition(experimentMode, swapped, knownR, trueX,
                                    wireResistancePerCm)
          IN  Balanced(Deflection(NearestOnWire(bp), bp))

\* C30: on the home page, while no Reading is selected (a selection is
\* cleared only by the reset, by the delete of the selected Reading and by
\* a switch of the experiment tab, and a request needs a selection), the
\* loading flag is false and the data panel displays no suggestion.
C30_StaleSuggestionNotDisplayed ==
    (page = "home" /\ selectedReadingId = NoId) =>
        /\ ~isAiLoading
        /\ ExperimentShown => aiSuggestion = ""

====
